---- MODULE Spec2Model ----
(***************************************************************************)
(* The worker-pool supervisor of src/src/internal/Supervisor.js as a state *)
(* machine.  One action per task of the Node event loop: a public method   *)
(* call (configure, start, stop), a message or an exit event of a worker   *)
(* process, a process.nextTick callback, a promise continuation, a timer.  *)
(* A task runs to completion; the nextTick queue is drained before the     *)
(* promise continuations, and both before the next event or timer.         *)
(***************************************************************************)
EXTENDS Integers, Sequences, FiniteSets, TLC

VARIABLES
  configured,           \* this.configured
  initializing,         \* this.initializing
  workerPoolCreated,    \* this.workerPoolCreated
  closing,              \* this.closing
  settings,             \* this.settings: a function from property name to value
  workers,              \* this.workers: id -> [state, exitCode, signalCode]
  heartbeatTimestamps,  \* this.heartbeatTimestamps: id -> timestamp
  heartbeatStartedAt,   \* this.heartbeatStartedAt: timestamp or Null
  heartbeatTimeout,     \* this.heartbeatTimeout: the monitor's timer or Null
  readyPromises,        \* ids whose once('up') promise of createWorkerPool is pending
  tickQueue,            \* process.nextTick queue: the workers awaiting replaceWorkerProcess,
                        \* each with (history) the closing flag at its exit
  stops,                \* the promise chains of the stop() calls made so far
  effects,              \* what the last task did to the outside, in order
  outcome,              \* the public method call the last task was, and how it ended
  fullSeen,             \* history: a health recomputation has seen every worker up
  respawns,             \* history: how many replacement processes were launched
  stalls,               \* history: id -> the workerStall events for id since its latest
                        \* recorded heartbeat (or since monitoring started)
  configureCalls,       \* history: how many configure calls were made
  launched,             \* history: the ids the loop of createWorkerPool launched a
                        \* process for, in order
  allUps                \* history: how many workerAllUp events were emitted

vars == <<configured, initializing, workerPoolCreated, closing, settings, workers,
          heartbeatTimestamps, heartbeatStartedAt, heartbeatTimeout, readyPromises,
          tickQueue, stops, effects, outcome, fullSeen, respawns,
          stalls, configureCalls, launched, allUps>>

(***************************************************************************)
(* Bounds of the exploration.                                              *)
(***************************************************************************)
\* the largest workerCount handed to configure
MaxWorkers == 2
\* how many replacement processes are launched before the processes stop crashing
MaxRespawns == 1
\* how many stop() calls are made
MaxStops == 1
\* the longest elapsed time, in seconds, that a timestamp is followed for
MaxAge == 7
\* how many workerStall events are counted for one silence of a worker
MaxStalls == 3
\* how many configure calls are made
MaxConfigures == 2

Null == "null"

\* Object.values(obj) of an object keyed 1..n, in insertion (ascending) order
Values(S) == SelectSeq([i \in 1..MaxWorkers + 1 |-> i], LAMBDA i : i \in S)

\* { ...a, ...b }
Spread(a, b) ==
  [k \in DOMAIN a \cup DOMAIN b |-> IF k \in DOMAIN b THEN b[k] ELSE a[k]]

EmptyObject == [k \in {} |-> Null]

DEFAULT_SETTINGS ==
  [gentleStopTimeout |-> 5000,
   killTimeout |-> 2000,
   heartbeatWorkerInterval |-> 500,
   heartbeatMonitorInterval |-> 1000,
   heartbeatStallTolerance |-> 5000]

(***************************************************************************)
(* Time.  A timer is the number of milliseconds left before it is due.  A  *)
(* timestamp taken with process.hrtime() is kept as process.hrtime(t), the *)
(* [seconds, nanoseconds] elapsed since it was taken: Tick ages it.        *)
(***************************************************************************)
\* the step of the clock: the shortest interval of DEFAULT_SETTINGS' timers
TickMs == DEFAULT_SETTINGS.heartbeatMonitorInterval

RECURSIVE StallEffects(_)

hrtimeToMilliseconds(hrtime) == (hrtime[1] * 1000) + (hrtime[2] \div 1000000)

\* process.hrtime() just taken
HrtimeNow == <<0, 0>>

HrtimeAdd(h, ms) ==
  LET ns == h[2] + (ms % 1000) * 1000000
      s == h[1] + (ms \div 1000) + (ns \div 1000000000)
  IN IF s >= MaxAge THEN <<MaxAge, 0>> ELSE <<s, ns % 1000000000>>

\* a variant of Due under which a timer fires as soon as it is armed
Due_AtOnce(timer) == timer # <<>>

\* a variant of Due under which no timer ever fires
Due_Never(timer) == FALSE

\* a timer: <<ms>> while armed with ms milliseconds to go, <<>> when there is none
NoTimer == <<>>
setTimeout(ms) == <<ms>>
Due(timer) == timer = <<0>>
TimerAfter(timer, ms) ==
  IF timer = NoTimer THEN NoTimer
  ELSE IF timer[1] > ms THEN <<timer[1] - ms>> ELSE <<0>>

\* a timestamp that was never taken (null, or an absent property)
NoTimestamp == <<>>

(***************************************************************************)
(* The worker handle (BaseWorker, imported at line 2) and the processes.   *)
(***************************************************************************)
\* new BaseWorker({ id, process, state: 'down' }, handler) on a process just forked
\* state is the handle's; exitCode and signalCode are its current process's (<<>> and
\* Null while it runs)
NewWorker == [state |-> "down", exitCode |-> <<>>, signalCode |-> Null]

\* worker.isDead(): the worker's current process has exited
isDead(worker) == worker.exitCode # <<>> \/ worker.signalCode # Null

\* worker.setProcess(newProcess, handler): the handle is kept, the process swapped
setProcess(worker) ==
  [worker EXCEPT !.exitCode = <<>>, !.signalCode = Null]

\* a variant that leaves the handle's state as it was
Exited_StateKept(worker, info) ==
  [worker EXCEPT !.exitCode = info.exitCode, !.signalCode = info.signalCode]

\* the process of the handle has exited with info
Exited(worker, info) ==
  [worker EXCEPT !.state = "down", !.exitCode = info.exitCode,
                 !.signalCode = info.signalCode]

\* the (exitCode, signalCode) pairs a process's 'exit' event carries; an exit code is
\* <<n>>, or <<>> for the null of a process ended by a signal
ExitInfos ==
  {[exitCode |-> <<0>>, signalCode |-> Null],
   [exitCode |-> <<1>>, signalCode |-> Null],
   [exitCode |-> <<>>, signalCode |-> "SIGKILL"]}

Emit(name, args) == <<"emit", name, args>>
Send(id, act) == <<"send", id, act>>
Kill(id, signal) == <<"kill", id, signal>>
Fork(id) == <<"fork", id>>

(***************************************************************************)
(* Reading the effects of a task                                           *)
(***************************************************************************)
Emitted(eff, name) == \E i \in DOMAIN eff : eff[i][1] = "emit" /\ eff[i][2] = name
EmittedFor(eff, name, id) ==
  \E i \in DOMAIN eff : eff[i][1] = "emit" /\ eff[i][2] = name /\ eff[i][3][1] = id
Forked(eff, id) == \E i \in DOMAIN eff : eff[i] = Fork(id)
Kills(eff) == {i \in DOMAIN eff : eff[i][1] = "kill"}
\* the acts of the health messages among the effects
HealthActs(eff) ==
  {eff[i][3] : i \in {j \in DOMAIN eff : eff[j][1] = "send" /\ eff[j][3] # "shutdown"}}
\* the task was a run of setPoolHealth
Recomputed(eff) == Emitted(eff, "info:workersUpCount")

(***************************************************************************)
(* Health.                                                                 *)
(***************************************************************************)
\* a variant that skips the workers that are not up
internalSend_UpOnly(ws, act) ==
  [i \in 1..Len(Values({id \in DOMAIN ws : ws[id].state = "up"})) |->
     Send(Values({id \in DOMAIN ws : ws[id].state = "up"})[i], act)]

\* internalSend(message): one send per worker of the pool
internalSend(ws, act) ==
  [i \in 1..Len(Values(DOMAIN ws)) |-> Send(Values(DOMAIN ws)[i], act)]

workersUp(ws) == Cardinality({id \in DOMAIN ws : ws[id].state = "up"})

\* a variant that forgets the initializing flag
HealthAct_NoInitializing(ws, init, st) ==
  IF workersUp(ws) >= st.minWorkerCount THEN "healthy" ELSE "unhealthy"

\* the act setPoolHealth broadcasts
HealthAct(ws, init, st) ==
  IF init
    THEN IF workersUp(ws) = st.workerCount THEN "healthy" ELSE "unhealthy"
    ELSE IF workersUp(ws) >= st.minWorkerCount THEN "healthy" ELSE "unhealthy"

\* this.initializing after setPoolHealth
HealthInitializing(ws, init, st) ==
  IF init /\ workersUp(ws) = st.workerCount THEN FALSE ELSE init

\* what setPoolHealth emits and sends
setPoolHealth(ws, init, st) ==
  <<Emit("info:workersUpCount",
         <<workersUp(ws), st.workerCount, st.minWorkerCount>>)>>
  \o internalSend(ws, HealthAct(ws, init, st))

(***************************************************************************)
(* configure                                                               *)
(***************************************************************************)
\* the settings objects and base settings handed to configure
SettingsInputs ==
  {[workerCount |-> MaxWorkers, workerEnv |-> "function"],
   [workerCount |-> MaxWorkers],
   [workerEnv |-> "function"]}

BaseSettingsInputs == {EmptyObject, [minWorkerCount |-> 1]}

\* a variant that only requires workerCount
MissingSetting_CountOnly(s) ==
  IF "workerCount" \notin DOMAIN s THEN "workerCount" ELSE Null

\* the first required property the forEach of configure finds missing
MissingSetting(s) ==
  IF "workerCount" \notin DOMAIN s THEN "workerCount"
  ELSE IF "workerEnv" \notin DOMAIN s THEN "workerEnv"
  ELSE Null

minWorkerCountDefault(workerCount) ==
  IF workerCount >= 4 THEN workerCount - 2 ELSE workerCount

MergedSettings(s, base) ==
  LET merged == Spread(Spread(DEFAULT_SETTINGS, base), s)
  IN IF "minWorkerCount" \in DOMAIN merged
       THEN merged
       ELSE Spread(merged,
                   [minWorkerCount |-> minWorkerCountDefault(merged["workerCount"])])

\* how a public method call ended; NoCall after a task that is none
Returned(call, args) == [call |-> call, args |-> args, threw |-> Null, prop |-> Null]
Threw(call, args, message, prop) ==
  [call |-> call, args |-> args, threw |-> message, prop |-> prop]
NoCall == Returned(Null, <<>>)

configure(s, base) ==
  /\ configureCalls < MaxConfigures
  /\ effects' = <<>>
  /\ IF configured
       THEN /\ outcome' = Threw("configure", <<s, base>>, "poolHall already configured", Null)
            /\ UNCHANGED <<configured, settings>>
       ELSE /\ configured' = TRUE
            /\ IF MissingSetting(s) # Null
                 THEN /\ outcome' = Threw("configure", <<s, base>>, "Missing required setting",
                                       MissingSetting(s))
                      /\ UNCHANGED settings
                 ELSE /\ outcome' = Returned("configure", <<s, base>>)
                      /\ settings' = MergedSettings(s, base)
  /\ configureCalls' = configureCalls + 1
  /\ UNCHANGED <<initializing, workerPoolCreated, closing, workers, heartbeatTimestamps,
                 heartbeatStartedAt, heartbeatTimeout, readyPromises, tickQueue, stops,
                 fullSeen, respawns, stalls, launched, allUps>>

(***************************************************************************)
(* start and createWorkerPool                                              *)
(***************************************************************************)
\* how often the loop "for (id = 1; id <= workerCount; id += 1)" runs: not at all
\* when workerCount is undefined
PoolIds(st) == IF "workerCount" \in DOMAIN st THEN 1..st.workerCount ELSE {}

\* the delay of setTimeout(f, settings.<prop>): 1 ms when the property is undefined
Delay(st, prop) == IF prop \in DOMAIN st THEN st[prop] ELSE 1

\* the continuation of Promise.all(workerReadyPromises)
AllUpEffects == <<Emit("workerAllUp", <<>>)>>

\* every task but a public method call waits until the nextTick queue and the
\* promise continuations of the task before it are done
Continuing(run) == run.phase # "resolved" /\ run.race # "pending"
Idle == tickQueue = <<>> /\ \A r \in DOMAIN stops : ~Continuing(stops[r])

start ==
  /\ closing' = FALSE
  /\ outcome' = Returned("start", <<>>)
  /\ IF workerPoolCreated
       THEN /\ effects' = <<>>
            /\ UNCHANGED <<workerPoolCreated, workers, readyPromises,
                           heartbeatStartedAt, heartbeatTimeout, stalls, launched, allUps>>
       ELSE /\ workerPoolCreated' = TRUE
            /\ workers' = [id \in PoolIds(settings) |-> NewWorker]
            /\ readyPromises' = PoolIds(settings)
            /\ stalls' = [id \in PoolIds(settings) |-> 0]
            /\ launched' = launched \o Values(PoolIds(settings))
            /\ IF PoolIds(settings) = {}
                 THEN /\ heartbeatStartedAt' = HrtimeNow
                      /\ heartbeatTimeout' =
                           setTimeout(Delay(settings, "heartbeatMonitorInterval"))
                      /\ effects' = AllUpEffects
                      /\ allUps' = allUps + 1
                 ELSE /\ effects' = [i \in PoolIds(settings) |-> Fork(i)]
                      /\ UNCHANGED <<heartbeatStartedAt, heartbeatTimeout, allUps>>
  /\ UNCHANGED <<configured, initializing, settings, heartbeatTimestamps, tickQueue, stops,
                 fullSeen, respawns, configureCalls>>

(***************************************************************************)
(* Messages and exits of the worker processes                              *)
(***************************************************************************)
\* the pending once('down') promises of the stop() calls, after worker id emitted 'down'
DownSeen(run, id) ==
  IF run.phase = "resolved" \/ run.race # "pending"
    THEN [run EXCEPT !.late = {p \in @ : p[2] # id}]
    ELSE [run EXCEPT !.wait = @ \ {id},
                     !.race = IF run.wait \ {id} = {} THEN "resolved" ELSE "pending",
                     !.late = {p \in @ : p[2] # id}]

\* workerInternalMessageHandler, message.act === 'ready', with the listeners of 'up'
Ready(id) ==
  /\ Idle
  /\ id \in DOMAIN workers
  /\ ~isDead(workers[id])
  /\ workers[id].state = "down"
  /\ workers' = [workers EXCEPT ![id].state = "up"]
  /\ initializing' = HealthInitializing(workers', initializing, settings)
  /\ readyPromises' = readyPromises \ {id}
  /\ IF readyPromises # {} /\ readyPromises' = {}
       THEN /\ heartbeatStartedAt' = HrtimeNow
            /\ heartbeatTimeout' = setTimeout(Delay(settings, "heartbeatMonitorInterval"))
            /\ effects' = <<Emit("workerUp", <<id>>)>>
                          \o setPoolHealth(workers', initializing, settings)
                          \o AllUpEffects
            /\ allUps' = allUps + 1
       ELSE /\ effects' = <<Emit("workerUp", <<id>>)>>
                          \o setPoolHealth(workers', initializing, settings)
            /\ UNCHANGED <<heartbeatStartedAt, heartbeatTimeout, allUps>>
  /\ UNCHANGED <<configured, workerPoolCreated, closing, settings, heartbeatTimestamps,
                 tickQueue, stops, respawns, configureCalls, stalls, launched>>
  /\ outcome' = NoCall
  /\ fullSeen' = (fullSeen \/ workersUp(workers') = settings.workerCount)

\* a variant with the test inverted
Terminated_Inverted(info) == info.exitCode # <<0>>

\* exitCode === 0
Terminated(info) == info.exitCode = <<0>>

\* the 'exit' listener of connectWorkerProcessEvents, with the listeners of 'down'
Exit(id, info) ==
  /\ Idle
  /\ id \in DOMAIN workers
  /\ ~isDead(workers[id])
  /\ info.exitCode # <<0>> => (respawns < MaxRespawns \/ closing)
  /\ workers' = [workers EXCEPT ![id] = Exited(@, info)]
  /\ initializing' = HealthInitializing(workers', initializing, settings)
  /\ stops' = [r \in DOMAIN stops |-> DownSeen(stops[r], id)]
  /\ IF Terminated(info)
       THEN /\ effects' = <<Emit("workerDown", <<id, info>>)>>
                          \o setPoolHealth(workers', initializing, settings)
                          \o <<Emit("workerTerminated", <<id>>)>>
            /\ UNCHANGED tickQueue
       ELSE /\ effects' = <<Emit("workerDown", <<id, info>>)>>
                          \o setPoolHealth(workers', initializing, settings)
            /\ tickQueue' = Append(tickQueue, [worker |-> id, closing |-> closing])
  /\ UNCHANGED <<configured, workerPoolCreated, closing, settings, heartbeatTimestamps,
                 heartbeatStartedAt, heartbeatTimeout, readyPromises, respawns,
                 configureCalls, stalls, launched, allUps>>
  /\ outcome' = NoCall
  /\ fullSeen' = (fullSeen \/ workersUp(workers') = settings.workerCount)

\* a variant that replaces the process whatever closing is
Replaces_Always(isClosing) == TRUE

\* the guard of replaceWorkerProcess
Replaces(isClosing) == ~isClosing

\* the process.nextTick callback of the 'exit' listener: replaceWorkerProcess(worker)
replaceWorkerProcess ==
  /\ tickQueue # <<>>
  /\ tickQueue' = Tail(tickQueue)
  /\ IF Replaces(closing)
       THEN /\ workers' = [workers EXCEPT ![Head(tickQueue).worker] = setProcess(@)]
            /\ effects' = <<Fork(Head(tickQueue).worker)>>
            /\ respawns' = respawns + 1
       ELSE /\ effects' = <<>>
            /\ UNCHANGED <<workers, respawns>>
  /\ UNCHANGED <<configured, initializing, workerPoolCreated, closing, settings,
                 heartbeatTimestamps, heartbeatStartedAt, heartbeatTimeout,
                 readyPromises, stops, fullSeen, configureCalls, stalls, launched, allUps>>
  /\ outcome' = NoCall

(***************************************************************************)
(* stop: raceTo(gentleStop) . then(killSequence('SIGTERM'))                *)
(*                          . then(killSequence('SIGKILL'))                *)
(* A run is one stop() call's chain: the phase whose race is under way,    *)
(* the workers whose once('down') promise is pending, the race's timer and *)
(* how the race went; late, the once('down') promises still pending of the *)
(* waits whose race went to the timer, as <<phase, worker>>.  History:     *)
(* waited, the workers the phase began with; elapsed, the time since the   *)
(* phase began, counted up to its timeout; timedOut, the phases of the run *)
(* whose race went to the timer.                                           *)
(***************************************************************************)
\* raceTo(promise, ms, onTimeout) over the promise waiting for the workers in wait
raceTo(phase, wait, ms, timedOut) ==
  [phase |-> phase,
   wait |-> wait,
   timer |-> setTimeout(ms),
   race |-> IF wait = {} THEN "resolved" ELSE "pending",
   late |-> {},
   waited |-> wait,
   elapsed |-> 0,
   timedOut |-> timedOut]

\* a variant that forgets the isDead filter
liveWorkers_Unfiltered(ws) == DOMAIN ws

liveWorkers(ws) == {id \in DOMAIN ws : ~isDead(ws[id])}

\* what killProcesses(signal) emits and sends
killProcesses(ws, signal) ==
  IF Cardinality(liveWorkers(ws)) > 0
    THEN <<Emit("info:liveWorkersAtKill", <<signal, Cardinality(liveWorkers(ws))>>)>>
         \o [i \in 1..Len(Values(liveWorkers(ws))) |->
               Kill(Values(liveWorkers(ws))[i], signal)]
    ELSE <<>>

\* killSequence(signal)()
killSequence(ws, st, signal, timedOut) ==
  raceTo(signal, liveWorkers(ws), Delay(st, "killTimeout"), timedOut)

\* a variant that reports a timeout however the race went
onTimeout_Always(run, st) ==
  IF run.phase = "gentleStop"
    THEN <<Emit("info:gentleStopTimeout", <<Delay(st, "gentleStopTimeout")>>)>>
    ELSE <<Emit("info:killTimeout", <<run.phase, Delay(st, "killTimeout")>>)>>

\* what onTimeout emits when the race went to the timer
onTimeout(run, st) ==
  IF run.race # "timeout" THEN <<>>
  ELSE IF run.phase = "gentleStop"
    THEN <<Emit("info:gentleStopTimeout", <<Delay(st, "gentleStopTimeout")>>)>>
    ELSE <<Emit("info:killTimeout", <<run.phase, Delay(st, "killTimeout")>>)>>

Resolved(timedOut) ==
  [phase |-> "resolved", wait |-> {}, timer |-> NoTimer, race |-> "resolved",
   late |-> {}, waited |-> {}, elapsed |-> 0, timedOut |-> timedOut]

\* the pending once('down') promises the settled race leaves behind: those of its own
\* wait when it went to the timer, and those of the races before it
Abandoned(run) ==
  IF run.race = "timeout"
    THEN run.late \cup {<<run.phase, id>> : id \in run.wait}
    ELSE run.late

\* the phases of the run that timed out, the one just settled included
TimedOut(run) ==
  IF run.race = "timeout" THEN run.timedOut \cup {run.phase} ELSE run.timedOut

stop ==
  /\ Len(stops) < MaxStops
  /\ closing' = TRUE
  /\ outcome' = Returned("stop", <<>>)
  /\ stops' = Append(stops, raceTo("gentleStop", DOMAIN workers,
                                   Delay(settings, "gentleStopTimeout"), {}))
  /\ effects' = internalSend(workers, "shutdown")
  /\ UNCHANGED <<configured, initializing, workerPoolCreated, settings, workers,
                 heartbeatTimestamps, heartbeatStartedAt, heartbeatTimeout,
                 readyPromises, tickQueue, fullSeen, respawns, configureCalls, stalls, launched, allUps>>

\* the timer of raceTo fires first: resolve(PROMISE_TIMEOUT)
Timeout(r) ==
  /\ Idle
  /\ r \in DOMAIN stops
  /\ stops[r].phase # "resolved"
  /\ stops[r].race = "pending"
  /\ Due(stops[r].timer)
  /\ stops' = [stops EXCEPT ![r].race = "timeout"]
  /\ effects' = <<>>
  /\ UNCHANGED <<configured, initializing, workerPoolCreated, closing, settings, workers,
                 heartbeatTimestamps, heartbeatStartedAt, heartbeatTimeout,
                 readyPromises, tickQueue, fullSeen, respawns, configureCalls, stalls, launched, allUps>>
  /\ outcome' = NoCall

\* the continuation of a settled race: onTimeout, clearTimeout, and the next phase
Continue(r) ==
  /\ tickQueue = <<>>
  /\ r \in DOMAIN stops
  /\ Continuing(stops[r])
  /\ IF stops[r].phase = "gentleStop"
       THEN /\ stops' = [stops EXCEPT ![r] =
                              [killSequence(workers, settings, "SIGTERM", TimedOut(stops[r]))
                                 EXCEPT !.late = Abandoned(stops[r])]]
            /\ effects' = onTimeout(stops[r], settings) \o killProcesses(workers, "SIGTERM")
       ELSE IF stops[r].phase = "SIGTERM"
         THEN /\ stops' = [stops EXCEPT ![r] =
                                [killSequence(workers, settings, "SIGKILL", TimedOut(stops[r]))
                                   EXCEPT !.late = Abandoned(stops[r])]]
              /\ effects' = onTimeout(stops[r], settings) \o killProcesses(workers, "SIGKILL")
         ELSE /\ stops' = [stops EXCEPT ![r] =
                                [Resolved(TimedOut(stops[r]))
                                   EXCEPT !.late = Abandoned(stops[r])]]
              /\ effects' = onTimeout(stops[r], settings)
  /\ UNCHANGED <<configured, initializing, workerPoolCreated, closing, settings, workers,
                 heartbeatTimestamps, heartbeatStartedAt, heartbeatTimeout,
                 readyPromises, tickQueue, fullSeen, respawns, configureCalls, stalls, launched, allUps>>
  /\ outcome' = NoCall

(***************************************************************************)
(* Heartbeats                                                              *)
(***************************************************************************)
\* this.heartbeatTimestamps[workerId] || this.heartbeatStartedAt
HeartbeatBase(id) ==
  IF id \in DOMAIN heartbeatTimestamps THEN heartbeatTimestamps[id] ELSE heartbeatStartedAt

\* workerInternalMessageHandler, message.act === 'heartbeat', and recordHeartbeat
recordHeartbeat(id) ==
  /\ Idle
  /\ id \in DOMAIN workers
  /\ ~isDead(workers[id])
  /\ effects' =
       <<Emit("workerHeartbeat", <<id>>)>>
       \o (IF HeartbeatBase(id) # NoTimestamp
             THEN <<Emit("info:workerHeartbeatDelta",
                         <<id, hrtimeToMilliseconds(HeartbeatBase(id))>>)>>
             ELSE <<>>)
  /\ heartbeatTimestamps' =
       [w \in DOMAIN heartbeatTimestamps \cup {id} |->
          IF w = id THEN HrtimeNow ELSE heartbeatTimestamps[w]]
  /\ UNCHANGED <<configured, initializing, workerPoolCreated, closing, settings, workers,
                 heartbeatStartedAt, heartbeatTimeout, readyPromises, tickQueue, stops, fullSeen,
                 respawns, configureCalls, launched, allUps>>
  /\ stalls' = [stalls EXCEPT ![id] = 0]
  /\ outcome' = NoCall

\* a variant that forgets the isDead filter
Stalled_DeadToo(id) ==
  /\ "heartbeatStallTolerance" \in DOMAIN settings
  /\ hrtimeToMilliseconds(HeartbeatBase(id)) >= settings.heartbeatStallTolerance

\* a variant with > for >=
Stalled_Strict(id) ==
  /\ ~isDead(workers[id])
  /\ "heartbeatStallTolerance" \in DOMAIN settings
  /\ hrtimeToMilliseconds(HeartbeatBase(id)) > settings.heartbeatStallTolerance

\* the workers monitorHeartbeat finds stalled
Stalled(id) ==
  /\ ~isDead(workers[id])
  /\ "heartbeatStallTolerance" \in DOMAIN settings
  /\ hrtimeToMilliseconds(HeartbeatBase(id)) >= settings.heartbeatStallTolerance

\* a variant that signals the workers it is given
StallEffects_Kills(ids) == [i \in DOMAIN ids |-> Kill(ids[i], "SIGTERM")]

\* what monitorHeartbeat emits for the workers ids
StallEffects(ids) ==
  IF ids = <<>> THEN <<>>
  ELSE (IF Stalled(Head(ids))
          THEN <<Emit("workerStall", <<Head(ids)>>),
                 Emit("info:workerHeartbeatDelta",
                      <<Head(ids), hrtimeToMilliseconds(HeartbeatBase(Head(ids)))>>)>>
          ELSE <<>>)
       \o StallEffects(Tail(ids))

monitorHeartbeat ==
  /\ Idle
  /\ Due(heartbeatTimeout)
  /\ effects' = StallEffects(Values(DOMAIN workers))
  /\ heartbeatTimeout' = setTimeout(Delay(settings, "heartbeatMonitorInterval"))
  /\ UNCHANGED <<configured, initializing, workerPoolCreated, closing, settings, workers,
                 heartbeatTimestamps, heartbeatStartedAt, readyPromises, tickQueue, stops, fullSeen,
                 respawns, configureCalls, launched, allUps>>
  /\ stalls' = [id \in DOMAIN stalls |->
                  IF EmittedFor(effects', "workerStall", id) /\ stalls[id] < MaxStalls
                    THEN stalls[id] + 1 ELSE stalls[id]]
  /\ outcome' = NoCall

(***************************************************************************)
(* The clock                                                               *)
(***************************************************************************)
Tick ==
  /\ Idle
  /\ stops' = [r \in DOMAIN stops |->
                 [stops[r] EXCEPT !.timer = TimerAfter(@, TickMs),
                                  !.elapsed =
                                    IF stops[r].timer = NoTimer THEN @
                                    ELSE IF stops[r].timer[1] > TickMs THEN @ + TickMs
                                    ELSE @ + stops[r].timer[1]]]
  /\ heartbeatTimeout' = TimerAfter(heartbeatTimeout, TickMs)
  /\ heartbeatStartedAt' =
       IF heartbeatStartedAt = NoTimestamp THEN NoTimestamp
       ELSE HrtimeAdd(heartbeatStartedAt, TickMs)
  /\ heartbeatTimestamps' =
       [w \in DOMAIN heartbeatTimestamps |-> HrtimeAdd(heartbeatTimestamps[w], TickMs)]
  /\ effects' = <<>>
  /\ <<stops', heartbeatTimeout', heartbeatStartedAt', heartbeatTimestamps'>>
       # <<stops, heartbeatTimeout, heartbeatStartedAt, heartbeatTimestamps>>
  /\ UNCHANGED <<configured, initializing, workerPoolCreated, closing, settings, workers,
                 readyPromises, tickQueue, fullSeen, respawns, configureCalls, stalls, launched, allUps>>
  /\ outcome' = NoCall

Init ==
  /\ configured = FALSE
  /\ initializing = TRUE
  /\ workerPoolCreated = FALSE
  /\ workers = EmptyObject
  /\ settings = EmptyObject
  /\ closing = FALSE
  /\ heartbeatTimestamps = EmptyObject
  /\ heartbeatTimeout = NoTimer
  /\ heartbeatStartedAt = NoTimestamp
  /\ readyPromises = {}
  /\ tickQueue = <<>>
  /\ stops = <<>>
  /\ effects = <<>>
  /\ outcome = NoCall
  /\ fullSeen = FALSE
  /\ respawns = 0
  /\ stalls = EmptyObject
  /\ configureCalls = 0
  /\ launched = <<>>
  /\ allUps = 0

\* the pool's life and its shutdown, of a supervisor that is configured once
Next ==
  \/ \E s \in SettingsInputs, base \in BaseSettingsInputs :
       configureCalls = 0 /\ configure(s, base)
  \/ start
  \/ stop
  \/ \E id \in 1..MaxWorkers : Ready(id)
  \/ \E id \in 1..MaxWorkers, info \in ExitInfos : Exit(id, info)
  \/ replaceWorkerProcess
  \/ \E r \in 1..MaxStops : Timeout(r)
  \/ \E r \in 1..MaxStops : Continue(r)
  \/ Tick

Spec == Init /\ [][Next]_vars

\* the pool's life and its heartbeats, of a supervisor that is configured once and
\* whose monitor fires on time: no time passes while its timer is due
NextHeartbeat ==
  \/ \E s \in SettingsInputs, base \in BaseSettingsInputs :
       configureCalls = 0 /\ configure(s, base)
  \/ start
  \/ \E id \in 1..MaxWorkers : Ready(id)
  \/ \E id \in 1..MaxWorkers, info \in ExitInfos : Exit(id, info)
  \/ replaceWorkerProcess
  \/ \E id \in 1..MaxWorkers : recordHeartbeat(id)
  \/ monitorHeartbeat
  \/ ~Due(heartbeatTimeout) /\ Tick

SpecHeartbeat == Init /\ [][NextHeartbeat]_vars

\* the pool's life under any sequence of configure calls
NextConfigure ==
  \/ \E s \in SettingsInputs, base \in BaseSettingsInputs : configure(s, base)
  \/ start
  \/ \E id \in 1..MaxWorkers : Ready(id)
  \/ \E id \in 1..MaxWorkers, info \in ExitInfos : Exit(id, info)
  \/ replaceWorkerProcess

SpecConfigure == Init /\ [][NextConfigure]_vars

(***************************************************************************)
(* C1: every health message setPoolHealth broadcasts is 'healthy' exactly  *)
(* when either no earlier recomputation has seen all workerCount workers   *)
(* up and now all are up, or an earlier one has and now at least           *)
(* minWorkerCount are up; the earlier full recomputation is what clears    *)
(* initializing, which is never set again.                                 *)
(***************************************************************************)
C1_HealthBroadcast ==
  /\ [][Recomputed(effects') =>
          HealthActs(effects') =
            {IF \/ ~fullSeen /\ workersUp(workers') = settings.workerCount
                \/ fullSeen /\ workersUp(workers') >= settings.minWorkerCount
               THEN "healthy" ELSE "unhealthy"}]_vars
  /\ [][~initializing => ~initializing']_vars
  /\ [](initializing <=> ~fullSeen)

\* the pool is declared healthy below full strength, after a stop() and a start()
C1_Witness ==
  /\ Recomputed(effects)
  /\ HealthActs(effects) = {"healthy"}
  /\ workersUp(workers) < settings.workerCount
  /\ ~initializing
  /\ stops # <<>>
  /\ ~closing

(***************************************************************************)
(* C2, as claimed: the process of a worker that exits abnormally is        *)
(* replaced exactly when closing was false at the exit.                    *)
(***************************************************************************)
C2_ReplacedByClosingAtExit ==
  [][tickQueue # <<>> /\ tickQueue' = Tail(tickQueue) =>
       (Forked(effects', Head(tickQueue).worker) <=> ~Head(tickQueue).closing)]_vars

(***************************************************************************)
(* C2, amended: every abnormal exit queues one replaceWorkerProcess        *)
(* callback, which runs before any other event and launches a fresh        *)
(* process on the same worker exactly when closing is false as it runs.    *)
(***************************************************************************)
C2_ReplacedByClosingAtCallback ==
  /\ [][\A id \in DOMAIN workers :
          ~isDead(workers[id]) /\ isDead(workers'[id]) /\ workers'[id].exitCode # <<0>>
            => tickQueue' = <<[worker |-> id, closing |-> closing]>>]_vars
  /\ [][tickQueue # <<>> /\ tickQueue' = Tail(tickQueue) =>
          /\ Forked(effects', Head(tickQueue).worker) <=> ~closing
          /\ ~closing => workers' = [workers EXCEPT ![Head(tickQueue).worker] =
                                       [state |-> "down", exitCode |-> <<>>,
                                        signalCode |-> Null]]
          /\ closing => workers' = workers]_vars
  /\ [](tickQueue # <<>> => ~Idle /\ ENABLED replaceWorkerProcess)

\* an abnormal exit while closing was false that is not replaced: stop() came first
C2_Witness ==
  /\ tickQueue # <<>>
  /\ ~Head(tickQueue).closing
  /\ closing

(***************************************************************************)
(* C3: a worker whose process exited with code 0 keeps that dead process   *)
(* and stays down whatever happens next, closing or not, and the exit      *)
(* emits workerTerminated for its id and queues no replacement.            *)
(***************************************************************************)
C3_CleanExitRetires ==
  /\ [][\A id \in DOMAIN workers :
          workers[id].exitCode = <<0>> => workers'[id] = workers[id]]_vars
  /\ [][\A id \in DOMAIN workers :
          ~isDead(workers[id]) /\ workers'[id].exitCode = <<0>>
            => /\ EmittedFor(effects', "workerTerminated", id)
               /\ tickQueue' = <<>>]_vars
  /\ [](\A id \in DOMAIN workers :
          workers[id].exitCode = <<0>> => workers[id].state = "down")

\* a worker retired by a clean exit while the pool is open and another is replaced
C3_Witness ==
  \E id \in DOMAIN workers :
    /\ workers[id].exitCode = <<0>>
    /\ ~closing
    /\ respawns > 0
    /\ \E other \in DOMAIN workers : workers[other].state = "up"

(***************************************************************************)
(* The scheduling the event loop guarantees: time passes, a due timer      *)
(* fires, and queued callbacks and promise continuations are run.          *)
(***************************************************************************)
Fairness ==
  /\ WF_vars(Tick)
  /\ WF_vars(replaceWorkerProcess)
  /\ \A r \in 1..MaxStops : WF_vars(Timeout(r)) /\ WF_vars(Continue(r))

SpecFair == Spec /\ Fairness

(***************************************************************************)
(* C4: every stop() call's chain eventually resolves, whatever the workers *)
(* do, also when none of them ever exits.                                  *)
(***************************************************************************)
C4_StopSettles ==
  \A r \in 1..MaxStops :
    (Len(stops) >= r) ~> (Len(stops) >= r /\ stops[r].phase = "resolved")

\* a stop() resolved after all three races went to the timer, a worker still alive
C4_Witness ==
  \E r \in DOMAIN stops :
    /\ stops[r].phase = "resolved"
    /\ stops[r].timedOut = {"gentleStop", "SIGTERM", "SIGKILL"}
    /\ liveWorkers(workers) # {}

(***************************************************************************)
(* C5: signals escalate in order.  A SIGTERM is sent only by the           *)
(* continuation of a settled gentle-stop race, a SIGKILL only by that of a *)
(* settled SIGTERM race, and stop() resolves only from a settled SIGKILL   *)
(* race; a race is settled when every worker it waited for has reported    *)
(* down, or when its timeout (gentleStopTimeout, then killTimeout) has     *)
(* elapsed since the phase began.                                          *)
(***************************************************************************)
PhaseBefore(phase) ==
  IF phase = "SIGTERM" THEN "gentleStop" ELSE IF phase = "SIGKILL" THEN "SIGTERM" ELSE "SIGKILL"

PhaseTimeout(phase) ==
  IF phase = "gentleStop" THEN Delay(settings, "gentleStopTimeout")
  ELSE Delay(settings, "killTimeout")

C5_Escalation ==
  /\ [][\A i \in Kills(effects') :
          \E r \in DOMAIN stops :
            /\ Continuing(stops[r])
            /\ stops[r].phase = PhaseBefore(effects'[i][3])
            /\ stops'[r].phase = effects'[i][3]
            /\ effects'[i][2] \in stops'[r].wait]_vars
  /\ [][\A r \in DOMAIN stops :
          stops[r].phase # "resolved" /\ stops'[r].phase = "resolved"
            => Continuing(stops[r]) /\ stops[r].phase = PhaseBefore("resolved")]_vars
  /\ [](\A r \in DOMAIN stops :
          Continuing(stops[r]) =>
            \/ stops[r].race = "resolved" /\ stops[r].wait = {}
            \/ /\ stops[r].race = "timeout"
               /\ stops[r].wait # {}
               /\ stops[r].elapsed >= PhaseTimeout(stops[r].phase))

\* a worker that never exits gets SIGKILL from the continuation of a timed-out SIGTERM
\* race that followed a timed-out gentle stop
C5_Witness ==
  \E r \in DOMAIN stops, id \in DOMAIN workers :
    /\ stops[r].phase = "SIGKILL"
    /\ stops[r].timedOut = {"gentleStop", "SIGTERM"}
    /\ \E i \in Kills(effects) : effects[i] = Kill(id, "SIGKILL")
    /\ workers[id].state = "up"

(***************************************************************************)
(* C6: a kill sweep that finds no worker with a live process sends no      *)
(* signal, emits no info:liveWorkersAtKill and its race is settled at      *)
(* once; signals only go to live processes; and once every process of the  *)
(* pool has exited with no replacement queued, none is alive at any later  *)
(* sweep: when all processes exited before the gentle stop timed out, no   *)
(* signal is ever sent.                                                    *)
(***************************************************************************)
C6_NoLiveNoSignal ==
  /\ [][\A r \in DOMAIN stops :
          /\ Continuing(stops[r])
          /\ stops'[r] # stops[r]
          /\ stops[r].phase # "SIGKILL"
          /\ \A id \in DOMAIN workers : isDead(workers[id])
          => /\ Kills(effects') = {}
             /\ ~Emitted(effects', "info:liveWorkersAtKill")
             /\ stops'[r].race = "resolved"]_vars
  /\ [][\A i \in Kills(effects') : ~isDead(workers[effects'[i][2]])]_vars
  /\ [][/\ workerPoolCreated
        /\ tickQueue = <<>>
        /\ \A id \in DOMAIN workers : isDead(workers[id])
        => \A id \in DOMAIN workers' : isDead(workers'[id])]_vars

\* both sweeps of a stop() whose gentle stop did not time out found no live worker
C6_Witness ==
  \E r \in DOMAIN stops :
    /\ stops[r].phase = "SIGKILL"
    /\ stops[r].waited = {}
    /\ stops[r].timedOut = {}
    /\ DOMAIN workers # {}
    /\ effects = <<>>

(***************************************************************************)
(* C7: a process is launched, by start() or by replaceWorkerProcess, only  *)
(* when closing is false.                                                  *)
(***************************************************************************)
C7_NoLaunchWhileClosing ==
  (\E i \in DOMAIN effects : effects[i][1] = "fork") => ~closing

\* a replacement launched after a stop(), start() having cleared closing
C7_Witness ==
  /\ \E id \in DOMAIN workers : effects = <<Fork(id)>>
  /\ respawns > 0
  /\ stops # <<>>

(***************************************************************************)
(* C8: when workerAllUp is emitted, all workerCount workers are up, the    *)
(* health just broadcast is 'healthy' and initializing is false.           *)
(***************************************************************************)
C8_AllUpMeansAllUp ==
  Emitted(effects, "workerAllUp") /\ DOMAIN workers # {} =>
    /\ workersUp(workers) = settings.workerCount
    /\ HealthActs(effects) = {"healthy"}
    /\ ~initializing

(***************************************************************************)
(* The silences of the heartbeat claims: worker id's process is alive, the *)
(* monitor is running and has run, on time, ever since the timestamp id's  *)
(* silence counts from, which is ms milliseconds old.                      *)
(***************************************************************************)
SilentFor(id, ms) ==
  /\ heartbeatStartedAt # NoTimestamp
  /\ ~isDead(workers[id])
  /\ hrtimeToMilliseconds(HeartbeatBase(id)) = ms
  /\ ms <= hrtimeToMilliseconds(heartbeatStartedAt)
  /\ ms < MaxAge * 1000

\* the silences the model follows, in milliseconds
Silences == {n * TickMs : n \in 0..MaxAge}

(***************************************************************************)
(* C9, as claimed: with the default tolerance of 5000 ms and the monitor   *)
(* ticking every heartbeatMonitorInterval, a live worker silent for 6000   *)
(* ms has caused exactly one workerStall event for its id.                 *)
(***************************************************************************)
C9_ExactlyOneStall ==
  \A id \in DOMAIN workers : SilentFor(id, 6000) => stalls[id] = 1

(***************************************************************************)
(* C9, amended: the worker causes one workerStall event at every monitor   *)
(* tick at which its silence is at least heartbeatStallTolerance and none  *)
(* before: after 6000 ms that is one event, and a second one once the      *)
(* tick that falls on the 6000 ms mark has run.                            *)
(***************************************************************************)
C9_OneStallPerTickPastTolerance ==
  \A id \in DOMAIN workers : \A ms \in Silences :
    SilentFor(id, ms) =>
      IF ms < settings.heartbeatStallTolerance
        THEN stalls[id] = 0
        ELSE LET ticks == (ms - settings.heartbeatStallTolerance)
                            \div settings.heartbeatMonitorInterval
             IN stalls[id] = IF Due(heartbeatTimeout) THEN ticks ELSE ticks + 1

\* a worker silent for 6000 ms since its latest heartbeat, with one workerStall so far
C9_Witness ==
  \E id \in DOMAIN workers :
    /\ SilentFor(id, 6000)
    /\ id \in DOMAIN heartbeatTimestamps
    /\ stalls[id] = 1
    /\ settings.heartbeatStallTolerance = 5000

(***************************************************************************)
(* C10: a configure call that is not the first on its supervisor throws,   *)
(* and so does one whose settings lack workerCount or workerEnv.           *)
(***************************************************************************)
C10_ConfigureFails ==
  outcome.call = "configure" =>
    /\ configureCalls >= 2 => outcome.threw # Null
    /\ {"workerCount", "workerEnv"} \ DOMAIN outcome.args[1] # {} => outcome.threw # Null

\* a second configure with complete settings throws after a first that returned
C10_Witness ==
  /\ outcome.call = "configure"
  /\ configureCalls = 2
  /\ outcome.threw = "poolHall already configured"
  /\ {"workerCount", "workerEnv"} \subseteq DOMAIN outcome.args[1]
  /\ "workerCount" \in DOMAIN settings

(***************************************************************************)
(* C11: a configure call that throws leaves the configured flag and the    *)
(* settings as they were, so that a call with complete settings returns    *)
(* when every call before it threw for a missing required setting.         *)
(***************************************************************************)
C11_FailedConfigureLeavesNoTrace ==
  /\ [][configureCalls' # configureCalls /\ outcome'.threw # Null
          => configured' = configured /\ settings' = settings]_vars
  /\ [](/\ outcome.call = "configure"
        /\ {"workerCount", "workerEnv"} \subseteq DOMAIN outcome.args[1]
        /\ "workerCount" \notin DOMAIN settings
        => outcome.threw = Null)

(***************************************************************************)
(* C12: the handling of an abnormal exit marks the worker down, emits      *)
(* workerDown for its id and recomputes the health, in that order, and     *)
(* launches no process; the replacement for the id is launched by a later  *)
(* task, the queued callback, on the worker that is down and dead.         *)
(***************************************************************************)
C12_DownBeforeReplacement ==
  /\ [][\A id \in DOMAIN workers :
          ~isDead(workers[id]) /\ isDead(workers'[id]) /\ workers'[id].exitCode # <<0>>
            => /\ workers'[id].state = "down"
               /\ effects'[1][1] = "emit" /\ effects'[1][2] = "workerDown"
               /\ effects'[1][3][1] = id
               /\ effects'[2][1] = "emit" /\ effects'[2][2] = "info:workersUpCount"
               /\ effects'[2][3][1] = workersUp(workers')
               /\ \A i \in DOMAIN effects' : effects'[i][1] # "fork"
               /\ respawns' = respawns
               /\ Head(tickQueue').worker = id]_vars
  /\ [][respawns' # respawns
          => /\ tickQueue # <<>>
             /\ effects' = <<Fork(Head(tickQueue).worker)>>
             /\ workers[Head(tickQueue).worker].state = "down"
             /\ isDead(workers[Head(tickQueue).worker])
             /\ workers[Head(tickQueue).worker].exitCode # <<0>>]_vars

\* the replacement of a worker that was up when its process crashed has just been
\* launched, after the health was recomputed without it
C12_Witness ==
  /\ respawns > 0
  /\ \E id \in DOMAIN workers :
       /\ effects = <<Fork(id)>>
       /\ workers[id].state = "down"
       /\ ~isDead(workers[id])
  /\ ~initializing

(***************************************************************************)
(* C13: a task that emits workerUp or workerDown runs setPoolHealth once,  *)
(* right after the event, and sends one health message, 'healthy' or       *)
(* 'unhealthy', to every worker of the pool, whatever was broadcast        *)
(* before; a task that emits neither sends no health message.              *)
(***************************************************************************)
UpDownEvents(eff) ==
  {i \in DOMAIN eff : eff[i][1] = "emit" /\ eff[i][2] \in {"workerUp", "workerDown"}}

Recomputations(eff) ==
  {i \in DOMAIN eff : eff[i][1] = "emit" /\ eff[i][2] = "info:workersUpCount"}

HealthSends(eff, id) ==
  {i \in DOMAIN eff : eff[i][1] = "send" /\ eff[i][2] = id
                        /\ eff[i][3] \in {"healthy", "unhealthy"}}

C13_NotEdgeTriggered ==
  /\ Recomputations(effects) = {i + 1 : i \in UpDownEvents(effects)}
  /\ Cardinality(UpDownEvents(effects)) <= 1
  /\ \A id \in DOMAIN workers :
       /\ Cardinality(HealthSends(effects, id)) = Cardinality(UpDownEvents(effects))
       /\ \A i \in HealthSends(effects, id) : \A r \in Recomputations(effects) : i > r
  /\ Cardinality(HealthActs(effects)) <= 1
  /\ \A i \in DOMAIN effects :
       effects[i][1] = "send" => effects[i][2] \in DOMAIN workers

\* 'unhealthy' is broadcast again, to the worker that is up and to the one whose exit
\* caused the recomputation: while initializing nothing else was ever broadcast
C13_Witness ==
  /\ Emitted(effects, "workerDown")
  /\ initializing
  /\ HealthActs(effects) = {"unhealthy"}
  /\ \E id \in DOMAIN workers : workers[id].state = "up"
  /\ \E id \in DOMAIN workers :
       isDead(workers[id]) /\ Cardinality(HealthSends(effects, id)) = 1

(***************************************************************************)
(* C14: a monitorHeartbeat tick emits workerStall for a worker id exactly  *)
(* when the worker's process is not dead and the time elapsed since the    *)
(* id's latest recorded heartbeat, or since monitoring started when none   *)
(* was recorded for the id, is at least heartbeatStallTolerance.           *)
(***************************************************************************)
MonitorTick == Due(heartbeatTimeout) /\ heartbeatTimeout' # heartbeatTimeout

SilenceOf(id) ==
  hrtimeToMilliseconds(IF id \in DOMAIN heartbeatTimestamps
                         THEN heartbeatTimestamps[id] ELSE heartbeatStartedAt)

C14_StallIffAliveAndSilent ==
  /\ [][MonitorTick =>
          \A id \in DOMAIN workers :
            EmittedFor(effects', "workerStall", id)
              <=> /\ workers[id].exitCode = <<>> /\ workers[id].signalCode = Null
                  /\ SilenceOf(id) >= settings.heartbeatStallTolerance]_vars
  /\ [][~MonitorTick => ~Emitted(effects', "workerStall")]_vars

\* a tick has reported the live worker that is silent past the tolerance and not the
\* one whose process is dead, as silent as it is
C14_Witness ==
  /\ Emitted(effects, "workerStall")
  /\ \E a \in DOMAIN workers, b \in DOMAIN workers :
       /\ EmittedFor(effects, "workerStall", a)
       /\ ~isDead(workers[a])
       /\ a \in DOMAIN heartbeatTimestamps
       /\ isDead(workers[b])
       /\ ~EmittedFor(effects, "workerStall", b)
       /\ SilenceOf(b) >= settings.heartbeatStallTolerance

(***************************************************************************)
(* C15: a monitorHeartbeat tick only emits events and re-arms its timer:   *)
(* it leaves the workers (state and process), the worker mapping, closing, *)
(* initializing and the heartbeat timestamps as they were, sends nothing   *)
(* to a worker, signals none, launches no process and queues no            *)
(* replacement.                                                            *)
(***************************************************************************)
C15_MonitorOnlyReports ==
  [][MonitorTick =>
       /\ workers' = workers
       /\ closing' = closing
       /\ initializing' = initializing
       /\ heartbeatTimestamps' = heartbeatTimestamps
       /\ heartbeatStartedAt' = heartbeatStartedAt
       /\ tickQueue' = tickQueue
       /\ respawns' = respawns
       /\ \A i \in DOMAIN effects' : effects'[i][1] = "emit"
       /\ heartbeatTimeout' = <<Delay(settings, "heartbeatMonitorInterval")>>]_vars

\* a worker reported stalled tick after tick is still up, on the same live process
C15_Witness ==
  \E id \in DOMAIN workers :
    /\ EmittedFor(effects, "workerStall", id)
    /\ stalls[id] = MaxStalls
    /\ workers[id].state = "up"
    /\ ~isDead(workers[id])
    /\ respawns = 0

(***************************************************************************)
(* C16: the phases of a stop() call follow one another, each begun once by *)
(* the continuation of the settled race before it; a race settles once,    *)
(* by its wait when every worker waited for is down, or by its timer when  *)
(* the timer is due with the wait pending; the continuation emits the      *)
(* phase's timeout diagnostic exactly when the race went to the timer; and *)
(* a wait that completes after its race went to the timer changes nothing  *)
(* in the call's chain and adds no event, signal or launch to the exit     *)
(* handling that completes it.                                             *)
(***************************************************************************)
Diagnostics(eff) ==
  {i \in DOMAIN eff :
     eff[i][1] = "emit" /\ eff[i][2] \in {"info:gentleStopTimeout", "info:killTimeout"}}

DiagnosticOf(run) ==
  IF run.phase = "gentleStop"
    THEN Emit("info:gentleStopTimeout", <<Delay(settings, "gentleStopTimeout")>>)
    ELSE Emit("info:killTimeout", <<run.phase, Delay(settings, "killTimeout")>>)

C16_RacesNotCancellations ==
  /\ [][\A r \in DOMAIN stops :
          stops'[r].phase # stops[r].phase =>
            /\ stops[r].race # "pending"
            /\ stops[r].phase = PhaseBefore(stops'[r].phase)
            /\ \A q \in DOMAIN stops \ {r} : stops'[q] = stops[q]
            /\ IF stops[r].race = "timeout"
                 THEN /\ Cardinality(Diagnostics(effects')) = 1
                      /\ effects'[1] = DiagnosticOf(stops[r])
                 ELSE Diagnostics(effects') = {}]_vars
  /\ [][(\A r \in DOMAIN stops : stops'[r].phase = stops[r].phase)
          => Diagnostics(effects') = {}]_vars
  /\ [][\A r \in DOMAIN stops :
          stops'[r].phase = stops[r].phase /\ stops'[r].race # stops[r].race =>
            /\ stops[r].race = "pending"
            /\ stops'[r].race = "timeout" => Due(stops[r].timer) /\ stops[r].wait # {}
            /\ stops'[r].race = "resolved" => stops[r].wait # {} /\ stops'[r].wait = {}]_vars
  /\ [][\A r \in DOMAIN stops :
          stops'[r].late # stops[r].late /\ stops'[r].phase = stops[r].phase =>
            /\ \A i \in DOMAIN effects' :
                 \/ effects'[i][1] = "emit" /\ effects'[i][2] \in
                      {"workerDown", "info:workersUpCount", "workerTerminated"}
                 \/ effects'[i][1] = "send" /\ effects'[i][3] \in {"healthy", "unhealthy"}
            /\ closing' = closing
            /\ \E id \in DOMAIN workers :
                 /\ ~isDead(workers[id]) /\ isDead(workers'[id])
                 /\ stops'[r].late = {p \in stops[r].late : p[2] # id}
                 /\ [stops'[r] EXCEPT !.late = stops[r].late] =
                      IF stops[r].race = "pending" /\ id \in stops[r].wait
                        THEN [stops[r] EXCEPT
                                !.wait = @ \ {id},
                                !.race = IF stops[r].wait = {id} THEN "resolved"
                                         ELSE "pending"]
                        ELSE stops[r]]_vars

\* the last worker alive exits after the stop() that timed out three times on it has
\* resolved, and completes the waits of all three phases
C16_Witness ==
  \E r \in DOMAIN stops :
    /\ stops[r].phase = "resolved"
    /\ stops[r].timedOut = {"gentleStop", "SIGTERM", "SIGKILL"}
    /\ stops[r].late = {}
    /\ Emitted(effects, "workerDown")
    /\ closing

(***************************************************************************)
(* C17: whenever start() has returned on a supervisor whose settings hold  *)
(* workerCount, the loop of createWorkerPool has launched one process for  *)
(* each id 1..workerCount and no other, over all the calls so far;         *)
(* workerAllUp is emitted at most once; and a start() on a pool already    *)
(* created clears closing and changes nothing else.                        *)
(***************************************************************************)
C17_PoolCreatedOnce ==
  /\ [](outcome.call = "start" /\ "workerCount" \in DOMAIN settings
          => launched = [i \in 1..settings.workerCount |-> i])
  /\ [](allUps <= 1)
  /\ [][workerPoolCreated /\ outcome'.call = "start" =>
          /\ closing' = FALSE
          /\ effects' = <<>>
          /\ <<workers, workerPoolCreated, readyPromises, tickQueue, stops, settings,
               configured, initializing, heartbeatTimestamps, heartbeatStartedAt,
               heartbeatTimeout, launched, allUps>>' =
             <<workers, workerPoolCreated, readyPromises, tickQueue, stops, settings,
               configured, initializing, heartbeatTimestamps, heartbeatStartedAt,
               heartbeatTimeout, launched, allUps>>]_vars

(***************************************************************************)
(* What holds of pool creation whatever the order of the calls: the pool   *)
(* is created by the first start(), from the settings as they are then.    *)
(***************************************************************************)
PoolCreatedOnceFromSettingsAtFirstStart ==
  /\ [][~workerPoolCreated /\ outcome'.call = "start" =>
          /\ workerPoolCreated'
          /\ launched' = Values(PoolIds(settings))
          /\ effects' = IF PoolIds(settings) = {} THEN <<Emit("workerAllUp", <<>>)>>
                        ELSE [i \in PoolIds(settings) |-> Fork(i)]]_vars
  /\ [][launched' # launched => ~workerPoolCreated /\ outcome'.call = "start"]_vars
  /\ [][workerPoolCreated => workerPoolCreated']_vars
  /\ [](allUps <= 1)
  /\ [](~workerPoolCreated => launched = <<>> /\ allUps = 0)

(***************************************************************************)
(* C18: once the pool is created, the worker mapping holds the workers     *)
(* 1..workerCount and no other; a process is launched for an id only when  *)
(* the id has none or its previous one has exited, so that an id never has *)
(* two live processes; and an exit queues at most one replacement.         *)
(***************************************************************************)
C18_OneProcessPerId ==
  /\ [](workerPoolCreated /\ "workerCount" \in DOMAIN settings
          => DOMAIN workers = 1..settings.workerCount)
  /\ [][\A id \in DOMAIN workers' :
          Forked(effects', id) =>
            /\ id \in DOMAIN workers => isDead(workers[id]) /\ respawns' = respawns + 1
            /\ ~isDead(workers'[id])
            /\ \A i \in DOMAIN effects', j \in DOMAIN effects' :
                 effects'[i] = Fork(id) /\ effects'[j] = Fork(id) => i = j]_vars
  /\ [][\A id \in DOMAIN workers \cap DOMAIN workers' :
          isDead(workers[id]) /\ ~isDead(workers'[id]) =>
            /\ tickQueue # <<>> /\ Head(tickQueue).worker = id
            /\ tickQueue' = Tail(tickQueue)
            /\ effects' = <<Fork(id)>>]_vars
  /\ [][Len(tickQueue') > Len(tickQueue) =>
          /\ Len(tickQueue') = Len(tickQueue) + 1
          /\ \E id \in DOMAIN workers : ~isDead(workers[id]) /\ isDead(workers'[id])]_vars
  /\ [](\A i \in DOMAIN tickQueue, j \in DOMAIN tickQueue :
          /\ isDead(workers[tickQueue[i].worker])
          /\ tickQueue[i].worker = tickQueue[j].worker => i = j)

(***************************************************************************)
(* What holds of the worker mapping whatever the order of the calls: it is *)
(* filled once, by the start() that creates the pool, and never changes.   *)
(***************************************************************************)
PoolMappingFixedAtCreation ==
  /\ [][DOMAIN workers' # DOMAIN workers =>
          /\ ~workerPoolCreated /\ outcome'.call = "start"
          /\ DOMAIN workers' = PoolIds(settings)]_vars
  /\ [](~workerPoolCreated => DOMAIN workers = {})

(***************************************************************************)
(* C19: a worker in state up has a live process: the handling of an exit   *)
(* leaves the worker down, only a ready message of its current process     *)
(* takes it up again, and the workersUp count of every health              *)
(* recomputation counts only workers whose process is alive.               *)
(***************************************************************************)
C19_UpMeansAlive ==
  /\ [](\A id \in DOMAIN workers : workers[id].state = "up" => ~isDead(workers[id]))
  /\ [][\A id \in DOMAIN workers \cap DOMAIN workers' :
          /\ ~isDead(workers[id]) /\ isDead(workers'[id]) => workers'[id].state = "down"
          /\ workers[id].state = "down" /\ workers'[id].state = "up"
               => /\ ~isDead(workers[id]) /\ workers'[id] = [workers[id] EXCEPT !.state = "up"]
                  /\ effects'[1] = Emit("workerUp", <<id>>)]_vars
  /\ [](\A i \in Recomputations(effects) :
          effects[i][3][1] =
            Cardinality({id \in DOMAIN workers :
                           workers[id].state = "up" /\ ~isDead(workers[id])}))

\* the health is recomputed without the worker that was up until its process exited
C19_Witness ==
  /\ Emitted(effects, "workerDown")
  /\ ~initializing
  /\ \E i \in Recomputations(effects) : effects[i][3][1] = 1
  /\ \E id \in DOMAIN workers :
       /\ EmittedFor(effects, "workerDown", id)
       /\ isDead(workers[id])
       /\ workers[id].state = "down"
  /\ respawns > 0

(***************************************************************************)
(* C20: the gentle stop of a stop() call goes to its timer, and            *)
(* info:gentleStopTimeout is emitted, only when a worker it still waits    *)
(* for has a live process: workers that were already down with a dead      *)
(* process when stop() was called do not keep the wait from completing.    *)
(***************************************************************************)
C20_GentleStopWaitsForLiveOnly ==
  /\ [](\A r \in DOMAIN stops :
          stops[r].phase = "gentleStop" /\ stops[r].race = "timeout"
            => \E id \in stops[r].wait : ~isDead(workers[id]))
  /\ [][Emitted(effects', "info:gentleStopTimeout") =>
          \E r \in DOMAIN stops :
            /\ stops[r].phase = "gentleStop" /\ stops'[r].phase = "SIGTERM"
            /\ \E id \in stops[r].wait : ~isDead(workers[id])]_vars

====
